---- MODULE Spec2Model ----
(***************************************************************************)
(* Model of the article-review pipeline of revisor_artigos_sl3v1:          *)
(* processar_pdfs (main.py) drives, for every PDF, one crew of four        *)
(* sequential tasks (crew.py create_crew) and the result handlers          *)
(* processar_resultado_leitura / _revisao / _pesquisa / _artigo, which     *)
(* rest on limpar_conteudo_yaml and extrair_yaml_content.                  *)
(*                                                                         *)
(* Texts are sequences of one-character strings, so that the regular       *)
(* expressions, find(), the slice and strip() of the source are computed   *)
(* character by character.                                                 *)
(***************************************************************************)
EXTENDS Integers, Sequences, FiniteSets, TLC

(***************************************************************************)
(* Bounds                                                                  *)
(***************************************************************************)
MaxDocs == 2
MaxNameLen == 3
MaxKeys == 2

(***************************************************************************)
(* Characters and text helpers                                             *)
(***************************************************************************)
NL == "\n"
SP == " "
\* the backtick character (written by name: the lexer of TLA+ reserves it)
TICK == "BACKTICK"
Whitespace == {SP, NL}

MARKER == <<"A", "R", "T", "I", "G", "O", ":">>
ARTIGO == <<"A", "R", "T", "I", "G", "O">>
YamlWord == <<"y", "a", "m", "l">>

\* s[i..] (1-based), the empty text when i is past the end
Drop(s, i) == SubSeq(s, i, Len(s))

\* s.startswith(p) at position i
StartsAt(s, i, p) ==
    /\ i >= 1
    /\ i + Len(p) - 1 <= Len(s)
    /\ SubSeq(s, i, i + Len(p) - 1) = p

\* str.find: the first position where p occurs in s, 0 when it does not occur
Find(s, p) ==
    IF \E i \in 1..Len(s) : StartsAt(s, i, p)
    THEN CHOOSE i \in 1..Len(s) :
            /\ StartsAt(s, i, p)
            /\ \A j \in 1..(i - 1) : ~StartsAt(s, j, p)
    ELSE 0

\* p in s
Contains(s, p) == Find(s, p) # 0

\* number of consecutive characters of the set cs starting at position i
RECURSIVE RunLen(_, _, _)
RunLen(s, i, cs) ==
    IF i > Len(s) \/ i < 1 THEN 0
    ELSE IF s[i] \in cs THEN 1 + RunLen(s, i + 1, cs)
    ELSE 0

\* str.lstrip / str.rstrip / str.strip over the whitespace of the alphabet
RECURSIVE LStrip(_)
LStrip(s) ==
    IF s = <<>> THEN <<>>
    ELSE IF Head(s) \in Whitespace THEN LStrip(Tail(s))
    ELSE s

RECURSIVE RStrip(_)
RStrip(s) ==
    IF s = <<>> THEN <<>>
    ELSE IF s[Len(s)] \in Whitespace THEN RStrip(SubSeq(s, 1, Len(s) - 1))
    ELSE s

Strip(s) == LStrip(RStrip(s))

\* str.splitlines: the lines of s without their terminators; a final
\* terminator does not open an empty last line
RECURSIVE SplitLines(_)
SplitLines(s) ==
    IF s = <<>> THEN <<>>
    ELSE LET n == Find(s, <<NL>>)
         IN  IF n = 0 THEN <<s>>
             ELSE <<SubSeq(s, 1, n - 1)>> \o SplitLines(Drop(s, n + 1))

\* join of the lines with a newline between them
RECURSIVE JoinLines(_)
JoinLines(ls) ==
    IF ls = <<>> THEN <<>>
    ELSE IF Len(ls) = 1 THEN ls[1]
    ELSE ls[1] \o <<NL>> \o JoinLines(Tail(ls))

(***************************************************************************)
(* limpar_conteudo_yaml                                                    *)
(***************************************************************************)
\* length of the match of the pattern  (3 or more backticks) \s* yaml \s*
\* at position i, 0 when none
FenceYamlMatchLen(s, i) ==
    LET ticks == RunLen(s, i, {TICK})
        ws1   == RunLen(s, i + ticks, Whitespace)
        y     == i + ticks + ws1
    IN  IF ticks >= 3 /\ StartsAt(s, y, YamlWord)
        THEN ticks + ws1 + 4 + RunLen(s, y + 4, Whitespace)
        ELSE 0

\* re.sub of the fence-with-yaml-tag pattern (main.py line 569)
RECURSIVE SubFenceYaml(_)
SubFenceYaml(s) ==
    IF s = <<>> THEN <<>>
    ELSE LET m == FenceYamlMatchLen(s, 1)
         IN  IF m > 0 THEN SubFenceYaml(Drop(s, m + 1))
             ELSE <<Head(s)>> \o SubFenceYaml(Tail(s))

\* re.sub of the pattern (3 or more backticks) (main.py line 570)
RECURSIVE SubFence(_)
SubFence(s) ==
    IF s = <<>> THEN <<>>
    ELSE LET ticks == RunLen(s, 1, {TICK})
         IN  IF ticks >= 3 THEN SubFence(Drop(s, ticks + 1))
             ELSE IF ticks > 0 THEN SubSeq(s, 1, ticks) \o SubFence(Drop(s, ticks + 1))
             ELSE <<Head(s)>> \o SubFence(Tail(s))

\* re.sub of every remaining backtick (main.py line 573)
SubTick(s) == SelectSeq(s, LAMBDA c : c # TICK)

\* lines = [line.rstrip() ...], then only the lines with line.strip() non-empty
RECURSIVE RStripEach(_)
RStripEach(ls) ==
    IF ls = <<>> THEN <<>>
    ELSE <<RStrip(Head(ls))>> \o RStripEach(Tail(ls))

\* a cleaner that keeps the blank lines
KeepLines(ls) == ls

NonBlankLines(ls) == SelectSeq(ls, LAMBDA l : Strip(l) # <<>>)

limpar_conteudo_yaml(content) ==
    IF content = <<>> THEN <<>>
    ELSE LET c1 == SubFenceYaml(content)
             c2 == SubFence(c1)
             c3 == SubTick(c2)
             lines == RStripEach(SplitLines(c3))
         IN  Strip(JoinLines(NonBlankLines(lines)))

(***************************************************************************)
(* yaml.safe_load on the block subset of YAML that the texts of the model   *)
(* can contain: plain scalars, "key: value" and "key:" lines, "- " entries  *)
(* and indentation.  Parsed values keep the key order of the document.      *)
(* Anything outside that subset evaluates to Unmodelled, which no text of   *)
(* the model produces (ModelledOnly below).                                 *)
(***************************************************************************)
Str(s) == [t |-> "str", s |-> s]
Null == [t |-> "null"]
Dict(ks, vs) == [t |-> "dict", keys |-> ks, vals |-> vs]
List(xs) == [t |-> "list", items |-> xs]
YAMLError == [t |-> "YAMLError"]
Unmodelled == [t |-> "unmodelled"]

IsFailure(v) == v.t \in {"YAMLError", "unmodelled"}

\* the lines of a text as records of indentation and content
RECURSIVE ToLines(_)
ToLines(ls) ==
    IF ls = <<>> THEN <<>>
    ELSE LET n == RunLen(Head(ls), 1, {SP})
         IN  <<[ind |-> n, txt |-> Drop(Head(ls), n + 1)]>> \o ToLines(Tail(ls))

\* position of the first ':' that is followed by a space or ends the text
\* (the mapping-value indicator of a block-context plain scalar), 0 when none
ValueIndicator(txt) ==
    LET Ind(i) == txt[i] = ":" /\ (i = Len(txt) \/ txt[i + 1] = SP)
    IN  IF \E i \in 1..Len(txt) : Ind(i)
        THEN CHOOSE i \in 1..Len(txt) : Ind(i) /\ \A j \in 1..(i - 1) : ~Ind(j)
        ELSE 0

IsSeqEntry(txt) == StartsAt(txt, 1, <<"-", SP>>)
IsKeyLine(txt) == ~IsSeqEntry(txt) /\ ValueIndicator(txt) > 1
IsPlainLine(txt) ==
    /\ txt # <<>>
    /\ ~IsSeqEntry(txt)
    /\ ValueIndicator(txt) = 0
    /\ txt[1] # "-"

KeyOf(txt) == SubSeq(txt, 1, ValueIndicator(txt) - 1)
InlineOf(txt) == LStrip(Drop(txt, ValueIndicator(txt) + 1))
EntryOf(txt) == Drop(txt, 3)

\* plain scalars that the resolver of YAML 1.1 turns into a bool or a null
ResolvedWords ==
    { <<"y","e","s">>, <<"n","o">>, <<"o","n">>, <<"o","f","f">>,
      <<"t","r","u","e">>, <<"f","a","l","s","e">>, <<"n","u","l","l">> }

\* the characters that cannot start a plain scalar
Indicators == {"'", "\"", "{", "}", "[", "]", ",", "#", "&", "*", "!", "|", ">", "%", "@"}

NullWord == <<"n", "u", "l", "l">>

\* the value of a plain scalar
Scalar(s) ==
    IF s = NullWord THEN Null
    ELSE IF s \in ResolvedWords THEN Unmodelled
    ELSE IF s # <<>> /\ s[1] \in Indicators THEN Unmodelled
    ELSE Str(s)

\* a plain scalar that starts on a line and continues on the following lines
\* that are indented deeper than the enclosing block (parent); the lines are
\* folded with one space.  A continuation line holding a value indicator is
\* "mapping values are not allowed here".
RECURSIVE ParsePlain(_, _, _, _)
ParsePlain(L, k, parent, acc) ==
    IF k > Len(L) \/ L[k].ind <= parent THEN [val |-> Scalar(acc), nxt |-> k]
    ELSE IF IsPlainLine(L[k].txt) THEN ParsePlain(L, k + 1, parent, acc \o <<SP>> \o L[k].txt)
    ELSE IF IsKeyLine(L[k].txt) THEN [val |-> YAMLError, nxt |-> k]
    ELSE [val |-> Unmodelled, nxt |-> k]

RECURSIVE ParseNode(_, _, _)
RECURSIVE ParseMap(_, _, _, _, _)
RECURSIVE ParseSeq(_, _, _, _)

\* the block node that starts at line i; parent is the indentation of the
\* enclosing block (-1 for the document)
ParseNode(L, i, parent) ==
    LET txt == L[i].txt
    IN  IF IsSeqEntry(txt) THEN ParseSeq(L, i, L[i].ind, <<>>)
        ELSE IF IsKeyLine(txt) THEN ParseMap(L, i, L[i].ind, <<>>, <<>>)
        ELSE IF IsPlainLine(txt) THEN ParsePlain(L, i + 1, parent, txt)
        ELSE [val |-> Unmodelled, nxt |-> i]

\* the entries of a block mapping at indentation n, from line i on
ParseMap(L, i, n, ks, vs) ==
    IF i > Len(L) \/ L[i].ind < n THEN [val |-> Dict(ks, vs), nxt |-> i]
    ELSE IF L[i].ind > n THEN [val |-> YAMLError, nxt |-> i]
    ELSE IF ~IsKeyLine(L[i].txt) THEN
        \* a plain scalar where a key is required: could not find expected ':';
        \* a sequence entry where a key is required: did not find expected key
        IF IsPlainLine(L[i].txt) \/ IsSeqEntry(L[i].txt)
        THEN [val |-> YAMLError, nxt |-> i]
        ELSE [val |-> Unmodelled, nxt |-> i]
    ELSE
        LET key == KeyOf(L[i].txt)
            rest == InlineOf(L[i].txt)
            r == IF rest # <<>> THEN
                     IF ValueIndicator(rest) > 0 \/ IsSeqEntry(rest)
                     THEN [val |-> YAMLError, nxt |-> i]
                     ELSE IF rest[1] = "-" THEN [val |-> Unmodelled, nxt |-> i]
                     ELSE ParsePlain(L, i + 1, n, rest)
                 ELSE IF i + 1 <= Len(L) /\ L[i + 1].ind > n
                     THEN ParseNode(L, i + 1, n)
                 ELSE IF i + 1 <= Len(L) /\ L[i + 1].ind = n /\ IsSeqEntry(L[i + 1].txt)
                     THEN ParseSeq(L, i + 1, n, <<>>)
                 ELSE [val |-> Null, nxt |-> i + 1]
        IN  IF IsFailure(r.val) THEN r
            ELSE IF \E j \in 1..Len(ks) : ks[j] = key
                THEN [val |-> Unmodelled, nxt |-> i]
            ELSE ParseMap(L, r.nxt, n, Append(ks, key), Append(vs, r.val))

\* the entries of a block sequence at indentation n, from line i on; the
\* content of an entry is a block of its own at indentation n + 2
ParseSeq(L, i, n, xs) ==
    IF i > Len(L) \/ L[i].ind < n THEN [val |-> List(xs), nxt |-> i]
    ELSE IF L[i].ind > n THEN [val |-> YAMLError, nxt |-> i]
    ELSE IF ~IsSeqEntry(L[i].txt) THEN [val |-> List(xs), nxt |-> i]
    ELSE
        LET rest == EntryOf(L[i].txt)
            L2 == [L EXCEPT ![i] = [ind |-> n + 2, txt |-> rest]]
            r == IF rest = <<>> \/ rest[1] = SP THEN [val |-> Unmodelled, nxt |-> i]
                 ELSE IF IsPlainLine(rest) THEN ParsePlain(L, i + 1, n, rest)
                 ELSE ParseNode(L2, i, n)
        IN  IF IsFailure(r.val) THEN r
            ELSE ParseSeq(L, r.nxt, n, Append(xs, r.val))

\* yaml.safe_load(text): the parsed value, YAMLError when the codec raises
safe_load(text) ==
    LET L == ToLines(SplitLines(text))
    IN  IF L = <<>> THEN Null
        ELSE LET r == ParseNode(L, 1, -1)
             IN  IF IsFailure(r.val) THEN r.val
                 ELSE IF r.nxt <= Len(L) THEN YAMLError
                 ELSE r.val

\* isinstance(v, dict) and key in v
HasKey(v, key) == v.t = "dict" /\ \E j \in 1..Len(v.keys) : v.keys[j] = key

\* the Python truth value of a parsed value
Truthy(v) ==
    CASE v.t = "null" -> FALSE
      [] v.t = "str" -> v.s # <<>>
      [] v.t = "dict" -> v.keys # <<>>
      [] v.t = "list" -> v.items # <<>>
      [] OTHER -> FALSE

(***************************************************************************)
(* yaml.dump(data, default_flow_style=False, allow_unicode=True,           *)
(* sort_keys=False) on the values above: block style, the entries of a     *)
(* sequence that is the value of a key at the indentation of the key, the  *)
(* keys of a mapping in the order of the dict.                             *)
(***************************************************************************)
\* the rank of the first letter of a key in the alphabet
InitialRank(key) ==
    CASE key[1] = "A" -> 1 [] key[1] = "F" -> 6 [] key[1] = "G" -> 7
      [] key[1] = "L" -> 12 [] key[1] = "M" -> 13 [] key[1] = "O" -> 15
      [] key[1] = "R" -> 18 [] key[1] = "T" -> 20 [] OTHER -> 27

\* the positions of the keys in sorted order: the default sort_keys=True
KeyOrderSorted(ks) ==
    CHOOSE p \in [1..Len(ks) -> 1..Len(ks)] :
        /\ \A i, j \in 1..Len(ks) : i # j => p[i] # p[j]
        /\ \A i, j \in 1..Len(ks) : i < j => InitialRank(ks[p[i]]) <= InitialRank(ks[p[j]])

\* the positions of the keys in the order they are emitted: sort_keys=False
\* keeps the order of the dict
KeyOrder(ks) == [i \in 1..Len(ks) |-> i]

\* the text of a scalar: plain when it reads back as the same string, in
\* single quotes otherwise
ScalarText(v) ==
    IF v.t = "null" THEN NullWord
    ELSE IF Scalar(v.s) = v /\ v.s # <<>> /\ ValueIndicator(v.s) = 0 /\ v.s[1] # "-"
         THEN v.s
    ELSE <<"'">> \o v.s \o <<"'">>

IsScalar(v) == v.t \in {"str", "null"}

RECURSIVE DumpBlock(_, _)
RECURSIVE DumpEntries(_, _, _)
RECURSIVE DumpItems(_, _, _)

\* the lines of the block of a collection at indentation n
DumpBlock(v, n) ==
    IF v.t = "dict" THEN
        IF v.keys = <<>> THEN <<[ind |-> n, txt |-> <<"{", "}">>]>>
        ELSE DumpEntries(v, n, 1)
    ELSE
        IF v.items = <<>> THEN <<[ind |-> n, txt |-> <<"[", "]">>]>>
        ELSE DumpItems(v, n, 1)

\* the lines of the entries of a mapping from the k-th emitted key on
DumpEntries(v, n, k) ==
    IF k > Len(v.keys) THEN <<>>
    ELSE LET j == KeyOrder(v.keys)[k]
             key == v.keys[j]
             val == v.vals[j]
             own == IF IsScalar(val)
                    THEN <<[ind |-> n, txt |-> key \o <<":", SP>> \o ScalarText(val)]>>
                    ELSE IF val.t = "dict" /\ val.keys = <<>>
                    THEN <<[ind |-> n, txt |-> key \o <<":", SP, "{", "}">>]>>
                    ELSE IF val.t = "list" /\ val.items = <<>>
                    THEN <<[ind |-> n, txt |-> key \o <<":", SP, "[", "]">>]>>
                    ELSE <<[ind |-> n, txt |-> key \o <<":">>]>>
                         \o DumpBlock(val, IF val.t = "list" THEN n ELSE n + 2)
         IN  own \o DumpEntries(v, n, k + 1)

\* the lines of the items of a sequence from the k-th on: the first line of
\* an item follows the "- " of the item
DumpItems(v, n, k) ==
    IF k > Len(v.items) THEN <<>>
    ELSE LET item == v.items[k]
             sub == IF IsScalar(item) THEN <<[ind |-> n + 2, txt |-> ScalarText(item)]>>
                    ELSE DumpBlock(item, n + 2)
             own == <<[ind |-> n, txt |-> <<"-", SP>> \o sub[1].txt]>> \o Tail(sub)
         IN  own \o DumpItems(v, n, k + 1)

\* the text of the lines, each with its indentation and a newline
RECURSIVE LinesText(_)
LinesText(ls) ==
    IF ls = <<>> THEN <<>>
    ELSE [i \in 1..Head(ls).ind |-> SP] \o Head(ls).txt \o <<NL>> \o LinesText(Tail(ls))

\* yaml.dump(article_data, file, ...): the text written to the file
yaml_dump(data) ==
    IF IsScalar(data) THEN ScalarText(data) \o <<NL>>
    ELSE LinesText(DumpBlock(data, 0))

(***************************************************************************)
(* extrair_yaml_content                                                    *)
(***************************************************************************)
\* Python None
None == [t |-> "None"]

\* a marker test that forgets the colon of the marker
MarkerPresentLoose(cleaned) == Contains(cleaned, ARTIGO)

\* "ARTIGO:" in content (main.py line 613)
MarkerPresent(cleaned) == Contains(cleaned, MARKER)

\* content[i:] where i is the result of str.find: Find gives 0 where find gives
\* -1, and content[-1:] is the last character
SliceFrom(s, i) ==
    IF i = 0 THEN (IF s = <<>> THEN <<>> ELSE <<s[Len(s)]>>)
    ELSE Drop(s, i)

\* the slice content[content.find("ARTIGO:"):]
MarkerSlice(cleaned) == SliceFrom(cleaned, Find(cleaned, MARKER))

extrair_yaml_content(content) ==
    IF content = <<>> THEN None
    ELSE LET cleaned == limpar_conteudo_yaml(content)
         IN  IF MarkerPresent(cleaned)
             THEN IF IsFailure(safe_load(MarkerSlice(cleaned))) THEN None
                  ELSE [t |-> "text", s |-> MarkerSlice(cleaned)]
             ELSE None

(***************************************************************************)
(* File names                                                              *)
(***************************************************************************)
\* the characters that re's \w matches, among those of the model's names
WordChars == {"a", "b", "r", "t", "i", "g", "o", "m", "d", "u", "p", "y", "l", "_"}

\* re.sub(r'[...]', '_', s) and re.sub(r'[^...]', '_', s) over a class of characters
ReplaceChars(s, class) == [i \in 1..Len(s) |-> IF s[i] \in class THEN "_" ELSE s[i]]
ReplaceOthers(s, class) == [i \in 1..Len(s) |-> IF s[i] \notin class THEN "_" ELSE s[i]]

\* a collapse that only halves the runs: re.sub(r'__', '_', s)
RECURSIVE CollapsePairs(_)
CollapsePairs(s) ==
    IF Len(s) < 2 THEN s
    ELSE IF s[1] = "_" /\ s[2] = "_" THEN <<"_">> \o CollapsePairs(Drop(s, 3))
    ELSE <<Head(s)>> \o CollapsePairs(Tail(s))

\* re.sub(r'_+', '_', s)
RECURSIVE CollapseUnderscores(_)
CollapseUnderscores(s) ==
    IF s = <<>> THEN <<>>
    ELSE LET n == RunLen(s, 1, {"_"})
         IN  IF n > 0 THEN <<"_">> \o CollapseUnderscores(Drop(s, n + 1))
             ELSE <<Head(s)>> \o CollapseUnderscores(Tail(s))

\* the characters that sanitize_filename replaces
InvalidChars == {"\\", "/", "*", "?", ":", "\"", "<", ">", "|", NL}

sanitize_filename(filename) == ReplaceChars(filename, InvalidChars)

\* yaml_dir / f'output_{sanitized_pdf_name}.yaml'
YamlFileName(stem) ==
    <<"o", "u", "t", "p", "u", "t", "_">> \o sanitize_filename(stem) \o <<".", "y", "a", "m", "l">>

\* construir_caminho_artigo_markdown: the output_file handed to the compose task
construir_caminho_artigo_markdown(stem) ==
    <<"a", "r", "t", "i", "g", "o", "_">>
        \o ReplaceOthers(stem, WordChars \cup {"-"})
        \o <<".", "m", "d">>

\* the two re.sub of save_article (main.py lines 977-978) on file_name
SanitizedName(file_name) ==
    CollapseUnderscores(ReplaceOthers(file_name, WordChars \cup {"-", "."}))

\* the file name save_article writes, given md_filename = f'artigo_{stem}.md'
SaveArticleName(stem) ==
    SanitizedName(<<"a", "r", "t", "i", "g", "o", "_">> \o stem \o <<".", "m", "d">>)

(***************************************************************************)
(* Agents and their outputs                                                *)
(***************************************************************************)
\* the four tasks of the crew, in the order of Crew(tasks=[...])
\* a crew whose research task is listed before its review task
TasksResearchFirst == <<"leitura", "pesquisa", "revisao", "criar_artigo">>

Tasks == <<"leitura", "revisao", "pesquisa", "criar_artigo">>

\* the role of the agent of each task (agents.yaml); each role carries the
\* text that the handlers of main.py look for in task_output.agent
Role(task) ==
    CASE task = "leitura" -> "Leitor de PDFs"
      [] task = "revisao" -> "Revisor"
      [] task = "pesquisa" -> "Pesquisador"
      [] task = "criar_artigo" -> "Criador de Artigos"

\* the positions in Tasks of the tasks whose outputs a task receives as its
\* context (the context=[...] of each Task of create_crew)
ContextOf(task) ==
    CASE task = "leitura" -> <<>>
      [] task = "revisao" -> <<1>>
      [] task = "pesquisa" -> <<2>>
      [] task = "criar_artigo" -> <<2, 3>>

\* the texts the compose task of a crew run consumed, given the outputs of
\* that run: the outputs of its context tasks in the same kickoff
ComposeContext(outs) ==
    [k \in 1..Len(ContextOf("criar_artigo")) |-> outs[ContextOf("criar_artigo")[k]].raw]

\* needle in task_output.agent
AgentIs(task_output, needle) == task_output.agent = needle

\* the outputs of tasks_output whose agent matches, in order
OutputsOf(tasks_output, needle) == SelectSeq(tasks_output, LAMBDA o : AgentIs(o, needle))

(***************************************************************************)
(* Texts that the language model can return                                *)
(***************************************************************************)
Fence == <<TICK, TICK, TICK>>
Payload == MARKER \o <<NL, SP, SP, "-", SP, "G", "A", "P", ":", SP, "x">>
FencedPayload == Fence \o YamlWord \o <<NL>> \o Payload \o <<NL>> \o Fence
Noise == <<"n", "o", "i", "s", "e">>
MoreNoise == <<"m", "o", "r", "e", SP, "n", "o", "i", "s", "e">>

\* a fenced payload after some free text
TextValid == Noise \o <<SP>> \o FencedPayload
\* free text without the marker
TextNoMarker == Noise
\* a mapping whose only key is not the mandatory one: ARTIGO:GAP: x
TextKeyLess == MARKER \o <<"G", "A", "P", ":", SP, "x">>
\* the marker followed by text that the codec rejects: ARTIGO: GAP: x
TextMalformed == MARKER \o <<SP, "G", "A", "P", ":", SP, "x">>
\* a scalar, not a mapping: ARTIGO:x
TextScalar == MARKER \o <<"x">>

ReadTexts == {TextValid, TextNoMarker, TextKeyLess}
ReviewTexts == {TextValid, TextKeyLess, TextMalformed}

Ten == <<"0", "1", "2", "3", "4", "5", "6", "7", "8", "9">>
\* research texts of trimmed length 0, 10 and 11
ResearchTexts == {<<>>, <<SP>> \o Ten \o <<NL>>, <<SP>> \o Ten \o <<"x">> \o <<NL>>}

ArticleTexts == {<<>>, <<"#", SP, "t">>}

TextsOf(task) ==
    CASE task = "leitura" -> ReadTexts
      [] task = "revisao" -> ReviewTexts
      [] task = "pesquisa" -> ResearchTexts
      [] task = "criar_artigo" -> ArticleTexts

\* names of the PDF files of a batch (Path.stem)
NamePool == {<<"a">>, <<"a", "_", "b">>, <<"a", ":", "b">>}

RECURSIVE Batches(_)
Batches(n) ==
    IF n = 0 THEN {<<>>}
    ELSE LET shorter == Batches(n - 1)
         IN  shorter \cup
             { Append(b, x) : b \in {c \in shorter : Len(c) = n - 1},
                              x \in NamePool }

DistinctNames(b) == \A i, j \in 1..Len(b) : i # j => b[i] # b[j]

(***************************************************************************)
(* Result handlers                                                         *)
(***************************************************************************)
\* extrair_yaml_content and the yaml.safe_load of what it returned, for every
\* text a reader or a reviewer can return
YamlTexts == ReadTexts \cup ReviewTexts
Extracted == [raw \in YamlTexts |-> extrair_yaml_content(raw)]
Loaded == [raw \in YamlTexts |->
             IF Extracted[raw] = None THEN None ELSE safe_load(Extracted[raw].s)]

\* the check of processar_resultado_leitura on the parsed read payload
\* (main.py line 435): isinstance(parsed_yaml, dict) and 'ARTIGO' in parsed_yaml
LeituraAceita(parsed_yaml) == HasKey(parsed_yaml, ARTIGO)

\* processar_resultado_leitura: the extracted text of the first reader output
\* that yields one, when it parses to a dict with the key ARTIGO; else None
RECURSIVE LeituraFrom(_)
LeituraFrom(outs) ==
    IF outs = <<>> THEN None
    ELSE IF Extracted[Head(outs).raw] = None THEN LeituraFrom(Tail(outs))
    ELSE IF LeituraAceita(Loaded[Head(outs).raw]) THEN Extracted[Head(outs).raw]
    ELSE None

processar_resultado_leitura(tasks_output) ==
    LeituraFrom(OutputsOf(tasks_output, "Leitor de PDFs"))

\* the check of processar_resultado_revisao on the parsed review payload
\* (main.py line 497): article_data and isinstance(article_data, dict)
RevisaoAceita(article_data) == Truthy(article_data) /\ article_data.t = "dict"

\* processar_resultado_revisao up to the write: the record to save, taken
\* from the first reviewer output whose payload is accepted; None when no
\* reviewer output has one
RECURSIVE RevisaoFrom(_)
RevisaoFrom(outs) ==
    IF outs = <<>> THEN None
    ELSE IF Extracted[Head(outs).raw] = None THEN RevisaoFrom(Tail(outs))
    ELSE IF RevisaoAceita(Loaded[Head(outs).raw]) THEN Loaded[Head(outs).raw]
    ELSE RevisaoFrom(Tail(outs))

RevisaoRecord(tasks_output) == RevisaoFrom(OutputsOf(tasks_output, "Revisor"))

\* the states of a directory at a write
DirStates == {"ok", "missing", "readonly", "oserror"}

\* a threshold that lets a text of exactly ten characters through
SubstancialInclusive(content) == Len(content) >= 10

\* len(content) > 10 (main.py line 731)
Substancial(content) == Len(content) > 10

\* processar_resultado_pesquisa: the trimmed text of the first non-empty
\* researcher output when it is long enough, else None
RECURSIVE PesquisaFrom(_)
PesquisaFrom(outs) ==
    IF outs = <<>> THEN None
    ELSE IF Head(outs).raw = <<>> THEN PesquisaFrom(Tail(outs))
    ELSE IF Substancial(Strip(Head(outs).raw)) THEN [t |-> "text", s |-> Strip(Head(outs).raw)]
    ELSE None

processar_resultado_pesquisa(tasks_output) ==
    PesquisaFrom(OutputsOf(tasks_output, "Pesquisador"))

\* processar_resultado_artigo: the content handed to save_article, the first
\* non-empty output of the article writer; None when there is none
ArtigoContent(tasks_output) ==
    LET outs == SelectSeq(OutputsOf(tasks_output, "Criador de Artigos"), LAMBDA o : o.raw # <<>>)
    IN  IF outs = <<>> THEN None ELSE [t |-> "text", s |-> outs[1].raw]

\* a directory as a function from the names of its files to their contents
Written(dir, name, data) == [f \in DOMAIN dir \cup {name} |-> IF f = name THEN data ELSE dir[f]]

(***************************************************************************)
(* Inputs of the extraction: free text, an opening fence, a body, a        *)
(* closing fence and more free text                                        *)
(***************************************************************************)
Prefixes == {<<>>, Noise \o <<SP>>, Noise \o <<NL>>}
Openings == {<<>>, Fence \o YamlWord \o <<NL>>, Fence \o <<NL>>,
             Fence \o <<TICK, SP>> \o YamlWord \o <<SP, NL>>}
Bodies == {Payload, TextKeyLess, TextMalformed, TextScalar, MARKER,
           Noise, ARTIGO, ARTIGO \o <<SP, ":">>,
           <<"A", "R", "T", TICK, "I", "G", "O", ":">>}
Closings == {<<>>, <<NL>> \o Fence}
Suffixes == {<<>>, <<NL>> \o MoreNoise, <<NL, "n", "o", "t", "a", ":", SP, "f", "i", "m">>}

ExtractInputs ==
    [prefix : Prefixes, opening : Openings, body : Bodies,
     closing : Closings, suffix : Suffixes]

RawOf(e) == e.prefix \o e.opening \o e.body \o e.closing \o e.suffix

(***************************************************************************)
(* State                                                                   *)
(***************************************************************************)
VARIABLES
    pdf_files,               \* the stems of the PDFs listed by processar_pdfs
    idx,                     \* the position of the for loop over pdf_files
    pc,                      \* the step processar_pdfs is at
    tasks_output,            \* the outputs of the tasks of the running crew
    results,                 \* results.tasks_output of the first kickoff
    yaml_files,              \* resources/yamls: file name -> saved record
    markdown_files,          \* resources/artigos_markdown: file name -> text
    processed_successfully,  \* the flag processar_pdfs returns
    run_state,               \* per document, what each handler returned
    attempted,               \* the documents the loop body was entered for
    retorno,                 \* the value processar_pdfs returned
    entrada,                 \* the argument of a function applied on its own
    extraido,                \* what that function returned
    ambiente,                \* directories, configuration files and credential
    escritas,                \* the writes the handlers attempted for the document
    exit_code,               \* the exit status of the process
    kickoffs                 \* per document, the calls of crew.kickoff

vars == <<pdf_files, idx, pc, tasks_output, results, yaml_files, markdown_files,
          processed_successfully, run_state, attempted, retorno, entrada, extraido,
          ambiente, escritas, exit_code, kickoffs>>

\* the environment of a run: the resources directories (verificar_estrutura_
\* diretorios), agents.yaml and tasks.yaml (carregar_configuracoes) and
\* OPENAI_API_KEY (module level and LLM)
Ambientes ==
    [diretorios : {"ok", "missing"},
     config : {"ok", "missing", "empty"},
     credential : {"valid", "unset", "empty"}]

AmbienteOk == [diretorios |-> "ok", config |-> "ok", credential |-> "valid"]

Unset == "-"
Fresh == [leitura |-> Unset, revisao |-> Unset, pesquisa |-> Unset, artigo |-> Unset]
OkOrFail(b) == IF b THEN "ok" ELSE "falhou"

EmptyDir == [f \in {} |-> <<>>]
NoEntrada == [prefix |-> <<>>, opening |-> <<>>, body |-> <<>>, closing |-> <<>>, suffix |-> <<>>]

Init ==
    /\ pdf_files \in {b \in Batches(MaxDocs) : Len(b) >= 1 /\ DistinctNames(b)}
    /\ idx = 1
    /\ pc = "loop"
    /\ tasks_output = <<>>
    /\ results = <<>>
    /\ yaml_files = EmptyDir
    /\ markdown_files = EmptyDir
    /\ processed_successfully = FALSE
    /\ run_state = [i \in 1..Len(pdf_files) |-> Fresh]
    /\ attempted = <<>>
    /\ retorno = Unset
    /\ entrada = NoEntrada
    /\ extraido = Unset
    /\ ambiente = AmbienteOk
    /\ escritas = <<>>
    /\ exit_code = Unset
    /\ kickoffs = [i \in 1..Len(pdf_files) |-> 0]

(***************************************************************************)
(* processar_pdfs                                                          *)
(***************************************************************************)
\* an except clause that leaves the loop: break
AfterErrorBreak(i, n) == n + 1

\* an except clause that tries the document again
AfterErrorRetry(i, n) == i

\* where the loop goes after the except clause of a document: continue
AfterError(i, n) == i + 1

\* the except clause of the loop body (main.py lines 373-375)
Except ==
    /\ idx' = AfterError(idx, Len(pdf_files))
    /\ pc' = "loop"

\* the end of the loop body without an exception
NextDocument ==
    /\ idx' = idx + 1
    /\ pc' = "loop"

\* a loop body that starts by setting the flag of the batch to False
BeginDocResetFlag ==
    /\ pc = "loop"
    /\ idx <= Len(pdf_files)
    /\ attempted' = Append(attempted, idx)
    /\ tasks_output' = <<>>
    /\ results' = <<>>
    /\ escritas' = <<>>
    /\ processed_successfully' = FALSE
    /\ \/ /\ Except
          /\ UNCHANGED kickoffs
       \/ /\ pc' = "kickoff1"
          /\ kickoffs' = [kickoffs EXCEPT ![idx] = @ + 1]
          /\ UNCHANGED idx
    /\ UNCHANGED <<pdf_files, yaml_files, markdown_files,
                   run_state, retorno, entrada, extraido, ambiente, exit_code>>

\* the loop body up to the first kickoff: tools, inputs, output path and crew
\* creation, any of which may raise
BeginDoc ==
    /\ pc = "loop"
    /\ idx <= Len(pdf_files)
    /\ attempted' = Append(attempted, idx)
    /\ tasks_output' = <<>>
    /\ results' = <<>>
    /\ escritas' = <<>>
    /\ \/ /\ Except
          /\ UNCHANGED kickoffs
       \/ /\ pc' = "kickoff1"
          /\ kickoffs' = [kickoffs EXCEPT ![idx] = @ + 1]
          /\ UNCHANGED idx
    /\ UNCHANGED <<pdf_files, yaml_files, markdown_files, processed_successfully,
                   run_state, retorno, entrada, extraido, ambiente, exit_code>>

\* one task of the sequential crew: the next task of Crew(tasks=[...]) runs
\* and returns a text or raises; the compose task writes its output_file.
\* Without a valid credential the call of the language model raises.
RunTask ==
    /\ pc \in {"kickoff1", "kickoff2"}
    /\ LET task == Tasks[Len(tasks_output) + 1]
       IN  \/ /\ Except
              /\ UNCHANGED <<markdown_files, tasks_output, results>>
           \/ \E raw \in TextsOf(task) :
                /\ ambiente.credential = "valid"
                /\ tasks_output' = Append(tasks_output, [agent |-> Role(task), raw |-> raw])
                /\ IF task = "criar_artigo"
                   THEN /\ markdown_files' =
                             Written(markdown_files,
                                     construir_caminho_artigo_markdown(pdf_files[idx]), raw)
                        /\ pc' = IF pc = "kickoff1" THEN "resultados" ELSE "resultados_artigo"
                   ELSE UNCHANGED <<markdown_files, pc>>
                /\ UNCHANGED <<idx, results>>
    /\ UNCHANGED <<pdf_files, yaml_files, processed_successfully,
                   run_state, attempted, retorno, entrada, extraido,
                   ambiente, escritas, exit_code, kickoffs>>

\* the handling of the first kickoff's results (main.py lines 354-371):
\* read extraction, review save, research check
ProcessResults ==
    /\ pc = "resultados"
    /\ \E yaml_content \in {processar_resultado_leitura(tasks_output)},
          record \in {RevisaoRecord(tasks_output)},
          pesquisa_content \in {processar_resultado_pesquisa(tasks_output)},
          dir \in DirStates :
        \E resultados_revisao \in {record # None /\ dir = "ok"} :
           IF yaml_content = None
           THEN /\ run_state' = [run_state EXCEPT ![idx].leitura = "falhou"]
                /\ NextDocument
                /\ UNCHANGED <<yaml_files, tasks_output, results, escritas, kickoffs>>
           ELSE /\ escritas' =
                     IF record # None /\ dir \in {"ok", "oserror"}
                     THEN Append(escritas, [file |-> YamlFileName(pdf_files[idx]),
                                            ok |-> dir = "ok"])
                     ELSE escritas
                /\ yaml_files' =
                     IF resultados_revisao
                     THEN Written(yaml_files, YamlFileName(pdf_files[idx]), record)
                     ELSE yaml_files
                /\ IF ~resultados_revisao
                   THEN /\ run_state' = [run_state EXCEPT ![idx].leitura = "ok",
                                                          ![idx].revisao = "falhou"]
                        /\ NextDocument
                        /\ UNCHANGED <<tasks_output, results, kickoffs>>
                   ELSE IF pesquisa_content = None
                   THEN /\ run_state' = [run_state EXCEPT ![idx].leitura = "ok",
                                                          ![idx].revisao = "ok",
                                                          ![idx].pesquisa = "falhou"]
                        /\ NextDocument
                        /\ UNCHANGED <<tasks_output, results, kickoffs>>
                   ELSE /\ run_state' = [run_state EXCEPT ![idx].leitura = "ok",
                                                          ![idx].revisao = "ok",
                                                          ![idx].pesquisa = "ok"]
                        /\ pc' = "kickoff2"
                        /\ kickoffs' = [kickoffs EXCEPT ![idx] = @ + 1]
                        /\ results' = tasks_output
                        /\ tasks_output' = <<>>
                        /\ UNCHANGED idx
    /\ UNCHANGED <<pdf_files, markdown_files, processed_successfully,
                   attempted, retorno, entrada, extraido, ambiente, exit_code>>

\* the name save_article writes for each PDF of the pool
SaveArticleNames == [stem \in NamePool |-> SaveArticleName(stem)]

\* the states of the articles directory at a write of save_article, which
\* creates the directory when it is missing
ArticleDirStates == {"ok", "readonly", "oserror"}

\* the handling of the second kickoff's results (main.py lines 363-365):
\* processar_resultado_artigo, whose result is dropped, then the flag
ProcessArtigo ==
    /\ pc = "resultados_artigo"
    /\ \E dir \in ArticleDirStates, name \in {SaveArticleNames[pdf_files[idx]]} :
        LET content == ArtigoContent(tasks_output)
            saved == content # None /\ dir = "ok"
        IN  /\ markdown_files' =
                 IF saved
                 THEN Written(markdown_files, name, content.s)
                 ELSE markdown_files
            /\ run_state' = [run_state EXCEPT ![idx].artigo = OkOrFail(saved)]
            /\ escritas' =
                 IF content # None /\ dir \in {"ok", "oserror"}
                 THEN Append(escritas, [file |-> name,
                                        ok |-> dir = "ok"])
                 ELSE escritas
    /\ processed_successfully' = TRUE
    /\ NextDocument
    /\ UNCHANGED <<pdf_files, yaml_files, tasks_output, results, attempted, retorno,
                   entrada, extraido, ambiente, exit_code, kickoffs>>

\* return processed_successfully (main.py line 377); the locals end with the call
Return ==
    /\ pc = "loop"
    /\ idx > Len(pdf_files)
    /\ pc' = "done"
    /\ retorno' = processed_successfully
    /\ tasks_output' = <<>>
    /\ results' = <<>>
    /\ escritas' = <<>>
    /\ UNCHANGED <<pdf_files, idx, yaml_files, markdown_files,
                   processed_successfully, run_state, attempted, entrada, extraido,
                   ambiente, exit_code, kickoffs>>

Next == BeginDoc \/ RunTask \/ ProcessResults \/ ProcessArtigo \/ Return

Spec == Init /\ [][Next]_vars

(***************************************************************************)
(* The extraction on its own                                               *)
(***************************************************************************)
InitExtract ==
    /\ pdf_files = <<>>
    /\ idx = 1
    /\ pc = "extrair"
    /\ tasks_output = <<>>
    /\ results = <<>>
    /\ yaml_files = EmptyDir
    /\ markdown_files = EmptyDir
    /\ processed_successfully = FALSE
    /\ run_state = <<>>
    /\ attempted = <<>>
    /\ retorno = Unset
    /\ entrada \in ExtractInputs
    /\ extraido = Unset
    /\ ambiente = AmbienteOk
    /\ escritas = <<>>
    /\ exit_code = Unset
    /\ kickoffs = [i \in 1..Len(pdf_files) |-> 0]

\* an extraction that also saves what it extracted in the record store
ExtractAndStore ==
    /\ pc = "extrair"
    /\ extraido' = extrair_yaml_content(RawOf(entrada))
    /\ pc' = "extraido"
    /\ yaml_files' = Written(yaml_files, YamlFileName(<<"a">>), extraido')
    /\ UNCHANGED <<pdf_files, idx, tasks_output, results, markdown_files,
                   processed_successfully, run_state, attempted, retorno, entrada,
                   ambiente, escritas, exit_code, kickoffs>>

Extract ==
    /\ pc = "extrair"
    /\ extraido' = extrair_yaml_content(RawOf(entrada))
    /\ pc' = "extraido"
    /\ UNCHANGED <<pdf_files, idx, tasks_output, results, yaml_files, markdown_files,
                   processed_successfully, run_state, attempted, retorno, entrada,
                   ambiente, escritas, exit_code, kickoffs>>

\* processar_resultado_leitura on the outputs of a crew whose only reader
\* output is content (main.py lines 422-448): the extracted text when it
\* parses to a dict with the key ARTIGO, else None
ValidatedRead(content) ==
    LET yaml_content == extrair_yaml_content(content)
    IN  IF yaml_content = None THEN None
        ELSE IF LeituraAceita(safe_load(yaml_content.s)) THEN yaml_content
        ELSE None

\* processar_resultado_leitura called on the same text
ValidateRead ==
    /\ pc = "extraido"
    /\ extraido' = [yaml |-> extraido, leitura |-> ValidatedRead(RawOf(entrada))]
    /\ pc' = "validado"
    /\ UNCHANGED <<pdf_files, idx, tasks_output, results, yaml_files, markdown_files,
                   processed_successfully, run_state, attempted, retorno, entrada,
                   ambiente, escritas, exit_code, kickoffs>>

\* both functions called a second time on the same text
CallAgain ==
    /\ pc = "validado"
    /\ extraido' = [yaml |-> extraido.yaml, leitura |-> extraido.leitura,
                    yaml2 |-> extrair_yaml_content(RawOf(entrada)),
                    leitura2 |-> ValidatedRead(RawOf(entrada))]
    /\ pc' = "repetido"
    /\ UNCHANGED <<pdf_files, idx, tasks_output, results, yaml_files, markdown_files,
                   processed_successfully, run_state, attempted, retorno, entrada,
                   ambiente, escritas, exit_code, kickoffs>>

NextExtract == Extract \/ ValidateRead \/ CallAgain

SpecExtract == InitExtract /\ [][NextExtract]_vars

(***************************************************************************)
(* The sanitizers of file names on their own                               *)
(***************************************************************************)
\* the variables of processar_pdfs, which a function applied on its own
\* leaves alone
Pipeline == <<pdf_files, idx, tasks_output, results, yaml_files, markdown_files,
              processed_successfully, run_state, attempted, retorno,
              ambiente, escritas, exit_code, kickoffs>>

PipelineIdle ==
    /\ pdf_files = <<>>
    /\ idx = 1
    /\ tasks_output = <<>>
    /\ results = <<>>
    /\ yaml_files = EmptyDir
    /\ markdown_files = EmptyDir
    /\ processed_successfully = FALSE
    /\ run_state = <<>>
    /\ attempted = <<>>
    /\ retorno = Unset
    /\ ambiente = AmbienteOk
    /\ escritas = <<>>
    /\ exit_code = Unset
    /\ kickoffs = [i \in 1..Len(pdf_files) |-> 0]

\* the characters of the names: a word character, the underscore, two of the
\* characters sanitize_filename replaces, and a space, a dot and a hyphen
NameAlphabet == {"a", "_", ":", "*", SP, ".", "-"}

\* every name of at most n characters
Names(n) == UNION {[1..k -> NameAlphabet] : k \in 0..n}

\* what both sanitizers make of a name
Sanitized(name) == [record |-> sanitize_filename(name), artigo |-> SanitizedName(name)]

InitSanitize ==
    /\ PipelineIdle
    /\ pc = "sanear"
    /\ entrada \in Names(MaxNameLen)
    /\ extraido = Unset

\* sanitize_filename(name) and the sanitization of save_article on name
Sanitize ==
    /\ pc = "sanear"
    /\ extraido' = Sanitized(entrada)
    /\ pc' = "saneado"
    /\ UNCHANGED <<Pipeline, entrada>>

\* each sanitizer applied to its own result
SanitizeAgain ==
    /\ pc = "saneado"
    /\ extraido' = [record |-> sanitize_filename(extraido.record),
                    artigo |-> SanitizedName(extraido.artigo)]
    /\ pc' = "saneado2"
    /\ UNCHANGED <<Pipeline, entrada>>

NextSanitize == Sanitize \/ SanitizeAgain

SpecSanitize == InitSanitize /\ [][NextSanitize]_vars

(***************************************************************************)
(* Records: the values yaml.safe_load can hand to the store and to the     *)
(* renderer                                                                *)
(***************************************************************************)
\* two letters of the key of the limitations section, written by name
CEDILHA == "C-CEDILHA"
OTIL == "O-TIL"

GAP == <<"G", "A", "P">>
OBJETIVOS == <<"O", "B", "J", "E", "T", "I", "V", "O", "S">>
METODOLOGIA == <<"M", "E", "T", "O", "D", "O", "L", "O", "G", "I", "A">>
RESULTADOS == <<"R", "E", "S", "U", "L", "T", "A", "D", "O", "S">>
LIMITACOES == <<"L", "I", "M", "I", "T", "A", CEDILHA, OTIL, "E", "S">>
FUTURO == <<"F", "U", "T", "U", "R", "O">>
TITULO == <<"T", "I", "T", "U", "L", "O">>

\* the keys of the entries of the records of the model
EntryKeys == {GAP, OBJETIVOS, FUTURO, TITULO}

\* the sequences of at most n distinct keys
KeySeqs(n) ==
    {ks \in UNION {[1..k -> EntryKeys] : k \in 1..n} :
        \A i, j \in 1..Len(ks) : i # j => ks[i] # ks[j]}

\* the entries with at most n keys whose values are in vals
Entries(vals, n) ==
    UNION {{Dict(ks, vs) : vs \in [1..Len(ks) -> vals]} : ks \in KeySeqs(n)}

TextX == <<"x">>
TextYZ == <<"y", SP, "z">>

\* the records around an entry: a one-entry list under ARTIGO, the entry
\* itself under ARTIGO, and a second top-level key before ARTIGO
RecordsOf(entries) ==
    {Dict(<<ARTIGO>>, <<List(<<e>>)>>) : e \in entries}
        \cup {Dict(<<ARTIGO>>, <<e>>) : e \in entries}
        \cup {Dict(<<TITULO, ARTIGO>>, <<Str(TextX), List(<<e>>)>>) : e \in entries}

(***************************************************************************)
(* The record store on its own: yaml.dump in processar_resultado_revisao,  *)
(* yaml.safe_load in gerar_artigos_a_partir_de_yaml                        *)
(***************************************************************************)
StoreValues == {Str(TextX), Str(TextYZ), Null, List(<<Str(TextX), Str(TextYZ)>>)}

StoreRecords == RecordsOf(Entries(StoreValues, MaxKeys))

InitStore ==
    /\ PipelineIdle
    /\ pc = "gravar"
    /\ entrada \in StoreRecords
    /\ extraido = Unset

\* with open(yaml_file, 'w') as file: yaml.dump(article_data, file, ...)
Save ==
    /\ pc = "gravar"
    /\ extraido' = yaml_dump(entrada)
    /\ pc' = "gravado"
    /\ UNCHANGED <<Pipeline, entrada>>

\* with open(yaml_file, 'r') as f: yaml_content = yaml.safe_load(f)
Load ==
    /\ pc = "gravado"
    /\ extraido' = safe_load(extraido)
    /\ pc' = "carregado"
    /\ UNCHANGED <<Pipeline, entrada>>

NextStore == Save \/ Load

SpecStore == InitStore /\ [][NextStore]_vars

(***************************************************************************)
(* generate_linkedin_article.  The wording of each fixed line is kept as   *)
(* one symbol; the newlines and the markdown marks around it are           *)
(* characters.                                                             *)
(***************************************************************************)
Banner == <<"#CienciaNaPratica">>
CallToActionTitle == <<"E voce, o que acha?">>
CallToActionText == <<"Como essas descobertas podem impactar sua area? Compartilhe suas ideias!">>
Hashtags == <<"#IA #Pesquisa #Inovacao #Tecnologia #Desenvolvimento #Ciencia">>
Divider == <<"-", "-", "-">>

\* the keys of sections, in the order the dict declares them
SectionKeys == <<GAP, OBJETIVOS, METODOLOGIA, RESULTADOS, LIMITACOES, FUTURO>>

\* sections[key]
SectionTitle(key) ==
    CASE key = GAP -> <<"Por que isso importa?">>
      [] key = OBJETIVOS -> <<"O que descobrimos?">>
      [] key = METODOLOGIA -> <<"Como chegamos la?">>
      [] key = RESULTADOS -> <<"O que encontramos?">>
      [] key = LIMITACOES -> <<"Quais sao os desafios?">>
      [] key = FUTURO -> <<"O que vem a seguir?">>

\* f"\n## {title}\n"
Heading(title) == <<NL, "#", "#", SP>> \o title \o <<NL>>

\* d[key] of a dict of the model
Get(d, key) == d.vals[CHOOSE j \in 1..Len(d.keys) : d.keys[j] = key]

\* key in artigo: membership in a dict or a list, a substring test in a str;
\* None is not iterable
KeyIn(key, artigo) ==
    CASE artigo.t = "dict" -> \E j \in 1..Len(artigo.keys) : artigo.keys[j] = key
      [] artigo.t = "list" -> \E j \in 1..Len(artigo.items) : artigo.items[j] = Str(key)
      [] artigo.t = "str" -> Contains(artigo.s, key)
      [] OTHER -> FALSE

\* a loop over the keys of the record instead of the keys of sections
RecordIterated(artigo) ==
    IF artigo.t = "dict"
    THEN SelectSeq(artigo.keys, LAMBDA k : \E i \in 1..Len(SectionKeys) : SectionKeys[i] = k)
    ELSE SectionKeys

\* the keys in the order of: for key, title in sections.items()
SectionsIterated(artigo) == SectionKeys

TypeError == [ok |-> FALSE, content |-> <<>>]

\* the strings the loop over the sections appends to content from the k-th
\* iterated key on; a TypeError when artigo is None, when artigo[key] is taken
\* of a str or a list, and when a value that is not a str reaches the join
RECURSIVE SectionContent(_, _)
SectionContent(artigo, k) ==
    IF k > Len(SectionsIterated(artigo)) THEN [ok |-> TRUE, content |-> <<>>]
    ELSE IF artigo.t = "null" THEN TypeError
    ELSE LET key == SectionsIterated(artigo)[k]
         IN  IF ~KeyIn(key, artigo) THEN SectionContent(artigo, k + 1)
             ELSE IF artigo.t # "dict" THEN TypeError
             ELSE IF Get(artigo, key).t # "str" THEN TypeError
             ELSE LET rest == SectionContent(artigo, k + 1)
                  IN  IF ~rest.ok THEN rest
                      ELSE [ok |-> TRUE,
                            content |-> <<Heading(SectionTitle(key)), Get(artigo, key).s, <<NL>>>>
                                            \o rest.content]

\* article_data['ARTIGO'], or its first item when it is a non-empty list
ArtigoOf(article_data) ==
    LET artigo == Get(article_data, ARTIGO)
    IN  IF artigo.t = "list" /\ Len(artigo.items) > 0 THEN artigo.items[1] ELSE artigo

\* generate_linkedin_article(article_data, pdf_file_name, {}): the joined
\* content, None when an exception was caught
generate_linkedin_article(article_data, pdf_file_name) ==
    LET header == << Banner, <<NL, "#", SP>> \o pdf_file_name \o <<NL>>, Divider \o <<NL>> >>
        body == IF HasKey(article_data, ARTIGO)
                THEN SectionContent(ArtigoOf(article_data), 1)
                ELSE [ok |-> TRUE, content |-> <<>>]
        footer == << Heading(CallToActionTitle), CallToActionText \o <<NL>>,
                     <<NL>> \o Divider \o <<NL>>, Hashtags >>
    IN  IF body.ok THEN [t |-> "text", s |-> JoinLines(header \o body.content \o footer)]
        ELSE None

RenderValues == {Str(TextX), Str(TextYZ), Str(<<>>), Null}

\* records around an entry, and records whose ARTIGO is not an entry, or
\* that have no ARTIGO, or that are no dict
RenderRecords ==
    RecordsOf(Entries(RenderValues, MaxKeys))
        \cup { Dict(<<ARTIGO>>, <<Str(GAP)>>), Dict(<<ARTIGO>>, <<Str(TextX)>>),
               Dict(<<ARTIGO>>, <<Null>>), Dict(<<ARTIGO>>, <<List(<<>>)>>),
               Dict(<<ARTIGO>>, <<List(<<Str(GAP)>>)>>),
               Dict(<<TITULO>>, <<Str(TextX)>>), Str(TextX) }

\* yaml_file.stem, the name gerar_artigos_a_partir_de_yaml passes
StemOfRecord == <<"o", "u", "t", "p", "u", "t", "_", "a">>

InitRender ==
    /\ PipelineIdle
    /\ pc = "renderizar"
    /\ entrada \in RenderRecords
    /\ extraido = Unset

Render ==
    /\ pc = "renderizar"
    /\ extraido' = generate_linkedin_article(entrada, StemOfRecord)
    /\ pc' = "renderizado"
    /\ UNCHANGED <<Pipeline, entrada>>

NextRender == Render

SpecRender == InitRender /\ [][NextRender]_vars

(***************************************************************************)
(* The process: module import, run(), processar_pdfs from its first line,  *)
(* gerar_artigos_a_partir_de_yaml and the exit status                      *)
(***************************************************************************)
\* the batches of at most n documents, the empty one included
RunBatches(n) == {b \in Batches(n) : DistinctNames(b)}

InitRun ==
    /\ pdf_files \in RunBatches(MaxDocs)
    /\ idx = 1
    /\ pc = "import"
    /\ tasks_output = <<>>
    /\ results = <<>>
    /\ yaml_files = EmptyDir
    /\ markdown_files = EmptyDir
    /\ processed_successfully = FALSE
    /\ run_state = [i \in 1..Len(pdf_files) |-> Fresh]
    /\ attempted = <<>>
    /\ retorno = Unset
    /\ entrada = NoEntrada
    /\ extraido = Unset
    /\ ambiente \in Ambientes
    /\ escritas = <<>>
    /\ exit_code = Unset
    /\ kickoffs = [i \in 1..Len(pdf_files) |-> 0]

\* the module level (main.py lines 37-39): os.environ['OPENAI_API_KEY'] =
\* os.getenv("OPENAI_API_KEY") raises a TypeError when the variable is unset,
\* and the interpreter exits with status 1 before run() is called
Import ==
    /\ pc = "import"
    /\ IF ambiente.credential = "unset"
       THEN pc' = "abortado" /\ exit_code' = 1
       ELSE pc' = "run" /\ UNCHANGED exit_code
    /\ UNCHANGED <<pdf_files, idx, tasks_output, results, yaml_files, markdown_files,
                   processed_successfully, run_state, attempted, retorno, entrada,
                   extraido, ambiente, escritas, kickoffs>>

\* processar_pdfs up to the loop (main.py lines 272-302): the directories,
\* the configuration, the list of PDFs; LLM(...) does not look at the key
Preflight ==
    /\ pc = "run"
    /\ IF \/ ambiente.diretorios # "ok"
          \/ ambiente.config # "ok"
          \/ pdf_files = <<>>
       THEN pc' = "done" /\ retorno' = FALSE
       ELSE pc' = "loop" /\ UNCHANGED retorno
    /\ UNCHANGED <<pdf_files, idx, tasks_output, results, yaml_files, markdown_files,
                   processed_successfully, run_state, attempted, entrada, extraido,
                   ambiente, escritas, exit_code, kickoffs>>

\* yaml_file.stem of a file of resources/yamls
StemOf(f) == SubSeq(f, 1, Len(f) - 5)

\* the name save_article writes for md_filename = f"{yaml_file.stem}.md"
GeneratedName(f) == SanitizedName(StemOf(f) \o <<".", "m", "d">>)

\* the article gerar_artigos_a_partir_de_yaml generates from a file: the
\* record is loaded and, when it is a non-empty dict, rendered
GeneratedContent(dir, f) ==
    LET yaml_content == safe_load(yaml_dump(dir[f]))
    IN  IF Truthy(yaml_content) /\ yaml_content.t = "dict"
        THEN generate_linkedin_article(yaml_content, StemOf(f))
        ELSE None

\* the articles directory after the loop of gerar_artigos_a_partir_de_yaml
\* saved the articles of the files in saved
Generated(dir, articles, saved) ==
    [n \in DOMAIN articles \cup {GeneratedName(f) : f \in saved} |->
        IF \E f \in saved : GeneratedName(f) = n
        THEN GeneratedContent(dir, CHOOSE f \in saved : GeneratedName(f) = n).s
        ELSE articles[n]]

\* run() after processar_pdfs returned, and the exit of the process (main.py
\* lines 1058-1094): SystemExit when it returned False; else
\* gerar_artigos_a_partir_de_yaml, which raises when the directories fail
\* its check and which skips a file whose article cannot be saved
Finish ==
    /\ pc = "done"
    /\ IF retorno # TRUE
       THEN /\ pc' = "abortado"
            /\ exit_code' = 1
            /\ UNCHANGED markdown_files
       ELSE \E dirs \in {"ok", "missing"} :
              IF dirs # "ok"
              THEN /\ pc' = "abortado"
                   /\ exit_code' = 1
                   /\ UNCHANGED markdown_files
              ELSE \E saved \in SUBSET {f \in DOMAIN yaml_files :
                                           GeneratedContent(yaml_files, f) # None} :
                     /\ markdown_files' = Generated(yaml_files, markdown_files, saved)
                     /\ pc' = "concluido"
                     /\ exit_code' = 0
    /\ UNCHANGED <<pdf_files, idx, tasks_output, results, yaml_files,
                   processed_successfully, run_state, attempted, retorno, entrada,
                   extraido, ambiente, escritas, kickoffs>>

NextRun == Import \/ Preflight \/ Next \/ Finish

SpecRun == InitRun /\ [][NextRun]_vars

\* every text of the model stays inside the modelled subset of YAML
ModelledOnly ==
    /\ pc = "extraido" =>
         LET cleaned == limpar_conteudo_yaml(RawOf(entrada))
         IN  Contains(cleaned, MARKER) => safe_load(MarkerSlice(cleaned)) # Unmodelled
    /\ \A raw \in YamlTexts :
         LET cleaned == limpar_conteudo_yaml(raw)
         IN  Contains(cleaned, MARKER) => safe_load(MarkerSlice(cleaned)) # Unmodelled

(***************************************************************************)
(* Properties                                                              *)
(***************************************************************************)
Docs == 1..Len(pdf_files)

AllOk(i) == run_state[i] = [leitura |-> "ok", revisao |-> "ok", pesquisa |-> "ok", artigo |-> "ok"]

\* document i has a record file in resources/yamls
HasRecord(i) == YamlFileName(pdf_files[i]) \in DOMAIN yaml_files

\* document i has a rendered document in resources/artigos_markdown, under the
\* name of the compose task's output_file or under the name save_article uses
HasArticle(i) ==
    \/ construir_caminho_artigo_markdown(pdf_files[i]) \in DOMAIN markdown_files
    \/ SaveArticleName(pdf_files[i]) \in DOMAIN markdown_files

\* no file name of document i is a file name of another document
NamesApart(i) ==
    \A j \in Docs \ {i} :
        /\ YamlFileName(pdf_files[j]) # YamlFileName(pdf_files[i])
        /\ {construir_caminho_artigo_markdown(pdf_files[j]), SaveArticleName(pdf_files[j])}
             \cap {construir_caminho_artigo_markdown(pdf_files[i]), SaveArticleName(pdf_files[i])}
           = {}

\* C1: whatever fails for a document (an exception of the tools, of the crew
\* creation or of a kickoff, a failed read extraction, review, research check
\* or article save), the loop goes on to the next document: the documents are
\* attempted in order, each once, and processar_pdfs returns only after the
\* last one was attempted.
C1_BatchContinues ==
    /\ \A k \in 1..Len(attempted) : attempted[k] = k
    /\ Len(attempted) <= Len(pdf_files)
    /\ pc = "loop" => idx = Len(attempted) + 1
    /\ pc \in {"kickoff1", "kickoff2", "resultados", "resultados_artigo"} => idx = Len(attempted)
    /\ pc = "done" => Len(attempted) = Len(pdf_files)

\* the first document failed by an exception before any handler ran, and the
\* second was still processed to the end
C1_Witness ==
    /\ pc = "done"
    /\ Len(pdf_files) >= 2
    /\ run_state[1] = Fresh
    /\ AllOk(2)
    /\ attempted[2] = 2

\* C2: processar_pdfs returns True only if some document succeeded end to end:
\* valid read record, review record persisted, research accepted, and the
\* article saved by processar_resultado_artigo.
C2_TrueOnlyIfSaved ==
    (pc = "done" /\ retorno = TRUE) => \E i \in Docs : AllOk(i)

\* C3: the review, research and compose tasks run for a document only after the
\* document's read output was extracted into a valid record.
C3_StagesAfterValidRead ==
    (pc \in {"kickoff1", "resultados"} /\ Len(tasks_output) >= 2)
        => run_state[idx].leitura = "ok"

\* C4: scenario A. In a finished batch of two or more documents where the read
\* extraction failed for document K only and every other document went
\* through, the others have a record and a rendered document, K has neither,
\* and the batch is reported as succeeded.
C4_ScenarioA ==
    pc = "done" =>
        \A K \in Docs :
            ( /\ Len(pdf_files) >= 2
              /\ run_state[K].leitura = "falhou"
              /\ NamesApart(K)
              /\ \A j \in Docs \ {K} : AllOk(j) )
            => /\ \A j \in Docs \ {K} : HasRecord(j) /\ HasArticle(j)
               /\ ~HasRecord(K)
               /\ ~HasArticle(K)
               /\ retorno = TRUE

\* C5: scenario B. When the research task raises for a document whose read and
\* review outputs are valid, the document's review record is persisted and no
\* rendered document exists for it.
C5_ScenarioB ==
    [][ ( /\ pc = "kickoff1"
          /\ Len(tasks_output) = 2
          /\ processar_resultado_leitura(tasks_output) # None
          /\ HasKey(RevisaoRecord(tasks_output), ARTIGO)
          /\ pc' = "loop" )
        => /\ YamlFileName(pdf_files[idx]) \in DOMAIN yaml_files'
           /\ construir_caminho_artigo_markdown(pdf_files[idx]) \notin DOMAIN markdown_files'
           /\ SaveArticleName(pdf_files[idx]) \notin DOMAIN markdown_files' ]_vars

\* a well-formed fenced block: the yaml-tagged fence, a body that starts with
\* the marker and parses, the closing fence
WellFormedFenced(e) ==
    /\ e.opening = Fence \o YamlWord \o <<NL>>
    /\ e.closing = <<NL>> \o Fence
    /\ StartsAt(e.body, 1, MARKER)
    /\ ~IsFailure(safe_load(e.body))

\* C6: for a raw text holding a well-formed fenced block, with any free text
\* before and after it, extrair_yaml_content returns a payload whose parse is
\* the record inside the fence.
C6_FencedRoundTrip ==
    (pc = "extraido" /\ WellFormedFenced(entrada))
        => /\ extraido # None
           /\ safe_load(extraido.s) = safe_load(entrada.body)

\* C7: a raw text whose cleaned form does not contain the marker yields None
\* (the no-payload outcome), never a payload.
C7_NoMarkerYieldsNone ==
    (pc = "extraido" /\ ~Contains(limpar_conteudo_yaml(RawOf(entrada)), MARKER))
        => extraido = None

\* a fenced text with the word ARTIGO and a colon elsewhere, but no marker
C7_Witness ==
    /\ pc = "extraido"
    /\ entrada.body = ARTIGO
    /\ entrada.opening = Fence \o YamlWord \o <<NL>>
    /\ entrada.suffix = <<NL, "n", "o", "t", "a", ":", SP, "f", "i", "m">>
    /\ extraido = None

\* C8: when the marker is present and the slice from it does not parse, the
\* outcome differs from None, the outcome of a text without the marker.
C8_MalformedDistinct ==
    ( /\ pc = "extraido"
      /\ Contains(limpar_conteudo_yaml(RawOf(entrada)), MARKER)
      /\ safe_load(MarkerSlice(limpar_conteudo_yaml(RawOf(entrada)))) = YAMLError )
        => extraido # None

\* C9: every record in the record store is a dict with the key ARTIGO.
C9_StoredHasKey ==
    \A f \in DOMAIN yaml_files : HasKey(yaml_files[f], ARTIGO)

\* the outputs of the first kickoff of the document last worked on
FirstRun == IF results # <<>> THEN results ELSE tasks_output

\* the document last worked on
LastDoc == IF pc \in {"loop", "done"} THEN idx - 1 ELSE idx

C11_ComposeContextValidated ==
    ( /\ pc = "loop"
      /\ LastDoc \in Docs
      /\ run_state[LastDoc].artigo = "ok"
      /\ Len(tasks_output) = 4
      /\ Len(results) = 4 )
    => ComposeContext(tasks_output) = <<results[2].raw, results[3].raw>>

\* file f is the same in the directory before and after a step: neither
\* created, nor overwritten with another content, nor removed
FileSame(before, after, f) ==
    /\ f \in DOMAIN before <=> f \in DOMAIN after
    /\ f \in DOMAIN before => after[f] = before[f]

\* the files of document j: its record file and its rendered-document files
RecordFileOf(j) == YamlFileName(pdf_files[j])
ArticleFilesOf(j) ==
    {construir_caminho_artigo_markdown(pdf_files[j]), SaveArticleName(pdf_files[j])}

\* C12: no step of the processing of document idx creates, overwrites or
\* removes the record file or a rendered-document file of another document of
\* the batch.
C12_FilesOfOthersUntouched ==
    [][ \A j \in Docs \ {idx} :
          /\ FileSame(yaml_files, yaml_files', RecordFileOf(j))
          /\ \A f \in ArticleFilesOf(j) : FileSame(markdown_files, markdown_files', f) ]_vars

\* C13: sanitizing twice gives what sanitizing once gives, for sanitize_filename
\* and for the sanitization of save_article.
C13_SanitizeIdempotent ==
    pc = "saneado2" => extraido = Sanitized(entrada)

\* a name with a run of three underscores and one with replaced characters
\* were sanitized twice
C13_Witness ==
    /\ pc = "saneado2"
    /\ entrada \in {<<"_", "_", "_">>, <<":", SP, "*">>}
    /\ extraido.record # entrada \/ extraido.artigo # entrada

\* C14: the sanitized key of a record file holds none of the characters that
\* sanitize_filename replaces and no run of two or more underscores.
C14_KeyCleanAndCollapsed ==
    pc = "saneado" =>
        /\ \A i \in 1..Len(extraido.record) : extraido.record[i] \notin InvalidChars
        /\ ~Contains(extraido.record, <<"_", "_">>)

\* C15: the record loaded from a file is the record that was saved to it, with
\* its keys in the same order at every level.
C15_SaveLoadRoundTrip ==
    pc = "carregado" => extraido = entrada

\* a record whose entry has its keys in an order that is not the sorted one,
\* with a null and a list among the values, was saved and loaded
C15_Witness ==
    /\ pc = "carregado"
    /\ entrada = Dict(<<TITULO, ARTIGO>>,
                      <<Str(TextX),
                        List(<<Dict(<<OBJETIVOS, GAP>>,
                                    <<Null, List(<<Str(TextX), Str(TextYZ)>>)>>)>>)>>)
    /\ extraido.t = "dict"

\* the entry of the record handed to the renderer, None when the record has
\* no ARTIGO
EntryOfRecord(article_data) ==
    IF HasKey(article_data, ARTIGO) THEN ArtigoOf(article_data) ELSE None

\* the line that follows the heading of key in the rendered text
BodyAfterHeading(text, key) ==
    LET h == Heading(SectionTitle(key)) \o <<NL>>
        rest == Drop(text, Find(text, h) + Len(h))
        n == Find(rest, <<NL>>)
    IN  IF n = 0 THEN rest ELSE SubSeq(rest, 1, n - 1)

\* C16: in a rendered text the heading of a section occurs only if the key of
\* the section is in the entry of the record, and no heading is followed by
\* an empty body.
C16_NoEmptySection ==
    (pc = "renderizado" /\ extraido # None) =>
        \A i \in 1..Len(SectionKeys) :
            Contains(extraido.s, Heading(SectionTitle(SectionKeys[i]))) =>
                /\ EntryOfRecord(entrada).t = "dict"
                /\ KeyIn(SectionKeys[i], EntryOfRecord(entrada))
                /\ Strip(BodyAfterHeading(extraido.s, SectionKeys[i])) # <<>>

\* the section values of an entry are all texts
TextSections(entry) ==
    \A i \in 1..Len(SectionKeys) :
        KeyIn(SectionKeys[i], entry) => Get(entry, SectionKeys[i]).t = "str"

\* the record has an entry that the renderer can take sections from: a dict
\* whose section values are texts
WellTyped(article_data) ==
    /\ HasKey(article_data, ARTIGO)
    /\ ArtigoOf(article_data).t = "dict"
    /\ TextSections(ArtigoOf(article_data))

\* the blocks of the sections of an entry, in the declared order
RECURSIVE BlocksFrom(_, _)
BlocksFrom(entry, i) ==
    IF i > 6 THEN <<>>
    ELSE LET key == <<GAP, OBJETIVOS, METODOLOGIA, RESULTADOS, LIMITACOES, FUTURO>>[i]
         IN  (IF KeyIn(key, entry)
              THEN Heading(SectionTitle(key)) \o <<NL>> \o Get(entry, key).s \o <<NL, NL, NL>>
              ELSE <<>>) \o BlocksFrom(entry, i + 1)

\* C17: for a record whose entry is a dict with text section values, the
\* rendered text is the banner line, the title heading, the divider, one
\* heading-plus-text block per section key of the entry in the declared order
\* (GAP, OBJETIVOS, METODOLOGIA, RESULTADOS, LIMITACOES, FUTURO) whatever the
\* order of the keys in the record, the call to action and the hashtag line;
\* for a record without ARTIGO it is the same text without section blocks.
C17_RenderedLayout ==
    pc = "renderizado" =>
        LET top == Banner \o <<NL, NL, "#", SP>> \o StemOfRecord \o <<NL, NL>> \o Divider \o <<NL, NL>>
            bottom == Heading(CallToActionTitle) \o <<NL>> \o CallToActionText \o <<NL, NL, NL>>
                        \o Divider \o <<NL, NL>> \o Hashtags
        IN  /\ WellTyped(entrada) =>
                 /\ extraido # None
                 /\ extraido.s = top \o BlocksFrom(ArtigoOf(entrada), 1) \o bottom
            /\ ~HasKey(entrada, ARTIGO) =>
                 /\ extraido # None
                 /\ extraido.s = top \o bottom

\* an entry with FUTURO before GAP was rendered with the section of GAP
\* before the section of FUTURO
C17_Witness ==
    /\ pc = "renderizado"
    /\ entrada = Dict(<<ARTIGO>>, <<List(<<Dict(<<FUTURO, GAP>>, <<Str(TextX), Str(TextYZ)>>)>>)>>)
    /\ extraido # None
    /\ Find(extraido.s, Heading(SectionTitle(GAP))) < Find(extraido.s, Heading(SectionTitle(FUTURO)))

\* a configuration error: a required directory is missing, agents.yaml or
\* tasks.yaml is missing or empty, or the credential is unset or empty
ConfigurationError ==
    \/ ambiente.diretorios # "ok"
    \/ ambiente.config # "ok"
    \/ ambiente.credential # "valid"

\* C18: with a configuration error no document is attempted, no task runs,
\* nothing is written, and when the process ends processar_pdfs has returned
\* False.
C18_ConfigErrorAborts ==
    ConfigurationError =>
        /\ attempted = <<>>
        /\ tasks_output = <<>>
        /\ yaml_files = EmptyDir
        /\ markdown_files = EmptyDir
        /\ pc \in {"abortado", "concluido"} => ToString(retorno) = ToString(FALSE)

\* C19: the exit status is 0 when run() completes and a document succeeded
\* end to end; it is not 0 after a setup failure (missing directory, missing
\* or empty configuration, unset credential) and when no document succeeded
\* end to end.
C19_ExitStatus ==
    /\ (pc = "concluido" /\ \E i \in Docs : AllOk(i)) => exit_code = 0
    /\ pc \in {"abortado", "concluido"} =>
          /\ ( \/ ambiente.diretorios # "ok"
               \/ ambiente.config # "ok"
               \/ ambiente.credential = "unset" ) => exit_code # 0
          /\ (~\E i \in Docs : AllOk(i)) => exit_code # 0

\* C20: when the handlers are done with a document, every write that failed
\* was followed by a write to another location, and the document is marked
\* failed.
C20_FallbackAfterFailedWrite ==
    (pc = "loop" /\ LastDoc \in Docs) =>
        \A k \in 1..Len(escritas) :
            ~escritas[k].ok =>
                /\ k < Len(escritas)
                /\ escritas[k + 1].file # escritas[k].file
                /\ ~AllOk(LastDoc)

\* the agents of the stages in the order read, review, research, compose
StageOrder == <<"Leitor de PDFs", "Revisor", "Pesquisador", "Criador de Artigos">>

\* the outputs of a crew run are those of the first stages, in order
InStageOrder(outs) ==
    /\ Len(outs) <= Len(StageOrder)
    /\ \A k \in 1..Len(outs) : outs[k].agent = StageOrder[k]

\* C21: in every crew run the stages are attempted in the order read, review,
\* research, compose, each after the one before it has returned; stages run
\* only for the document the loop is at, and a document the loop has not
\* reached has had no stage and no handler.
C21_StagesInOrder ==
    /\ InStageOrder(tasks_output)
    /\ InStageOrder(results)
    /\ pc \in {"kickoff1", "kickoff2", "resultados", "resultados_artigo"} =>
          /\ attempted # <<>>
          /\ idx = attempted[Len(attempted)]
    /\ \A j \in Docs : j > Len(attempted) => run_state[j] = Fresh

\* the second crew run of the second document went through its four stages
C21_Witness ==
    /\ pc = "resultados_artigo"
    /\ idx = 2
    /\ Len(tasks_output) = 4
    /\ Len(results) = 4

\* some reviewer output of a crew run holds a valid payload: a keyed document
\* with the mandatory key
ValidReviewPayload(outs) ==
    \E k \in 1..Len(outs) :
        /\ outs[k].agent = "Revisor"
        /\ extrair_yaml_content(outs[k].raw) # None
        /\ HasKey(safe_load(extrair_yaml_content(outs[k].raw).s), ARTIGO)

\* C22: whenever processar_resultado_revisao is called for a document, it
\* returns True exactly when it wrote the record file output_<sanitized
\* name>.yaml; without a valid payload in the reviewer's output it returns
\* False; and when it returns False no record file is written and the
\* document does not reach the research check.
C22_ReviewTrueIffWritten ==
    [][ (pc = "resultados" /\ run_state'[idx].revisao # Unset) =>
          LET name == <<"o", "u", "t", "p", "u", "t", "_">>
                        \o sanitize_filename(pdf_files[idx])
                        \o <<".", "y", "a", "m", "l">>
          IN  /\ run_state'[idx].revisao = "ok" <=>
                    /\ name \in DOMAIN yaml_files'
                    /\ Len(escritas') = Len(escritas) + 1
                    /\ escritas'[Len(escritas')] = [file |-> name, ok |-> TRUE]
              /\ ~ValidReviewPayload(tasks_output) => run_state'[idx].revisao = "falhou"
              /\ run_state'[idx].revisao = "falhou" =>
                    /\ yaml_files' = yaml_files
                    /\ run_state'[idx].pesquisa = Unset
                    /\ pc' = "loop" ]_vars

C24_ValidRecordRenders ==
    (pc = "renderizado" /\ HasKey(entrada, ARTIGO))
        => /\ extraido # None
           /\ extraido.s # <<>>

\* document i reached the assignment of the flag (main.py line 365): its
\* second crew run returned
ReachedFlag(i) == run_state[i].artigo # Unset

\* C25: the flag of the batch starts False, is never set back to False once
\* a document has set it, and processar_pdfs returns True exactly when some
\* document of the batch, at any position, set it.
C25_FlagMonotonic ==
    /\ (pc = "loop" /\ attempted = <<>>) => ~processed_successfully
    /\ pc \in {"loop", "kickoff1", "kickoff2", "resultados", "resultados_artigo"} =>
          (processed_successfully <=> \E i \in Docs : ReachedFlag(i))
    /\ pc = "done" =>
          /\ ToString(retorno) = ToString(\E i \in Docs : ReachedFlag(i))
          /\ processed_successfully <=> \E i \in Docs : ReachedFlag(i)

\* the first document set the flag, the second failed at the read extraction,
\* and True was returned
C25_Witness ==
    /\ pc = "done"
    /\ Len(pdf_files) = 2
    /\ ReachedFlag(1)
    /\ run_state[2].leitura = "falhou"
    /\ ToString(retorno) = ToString(TRUE)

\* the number of crew runs of the batch
RECURSIVE SumOf(_)
SumOf(counts) == IF counts = <<>> THEN 0 ELSE Head(counts) + SumOf(Tail(counts))

\* an upper bound of the steps processar_pdfs has left: per document the
\* start of the loop body, two crew runs of four tasks and the handling of
\* each run's results; then the return
StepsLeft ==
    LET perDoc == 2 * Len(Tasks) + 3
        after == perDoc * (Len(pdf_files) - idx) + 1
    IN  CASE pc = "done" -> 0
          [] pc = "loop" -> IF idx <= Len(pdf_files) THEN after + perDoc ELSE 1
          [] pc = "kickoff1" -> after + (Len(Tasks) - Len(tasks_output)) + Len(Tasks) + 2
          [] pc = "resultados" -> after + Len(Tasks) + 2
          [] pc = "kickoff2" -> after + (Len(Tasks) - Len(tasks_output)) + 1
          [] pc = "resultados_artigo" -> after + 1

\* C26: processar_pdfs returns for every batch (every step lowers a bound of
\* the steps left, and a step is possible until it has returned); it makes at
\* most two crew runs per document, at most 2N for N documents; and a second
\* crew run of a document is made only when the read extraction, the saving
\* of the review record and the research check succeeded on the outputs of
\* the first.
C26_TerminatesWithinTwoRuns ==
    /\ [] ( /\ \A i \in Docs : kickoffs[i] <= 2
            /\ SumOf(kickoffs) <= 2 * Len(pdf_files)
            /\ \A i \in Docs :
                  kickoffs[i] = 2 =>
                      /\ run_state[i].leitura = "ok"
                      /\ run_state[i].revisao = "ok"
                      /\ run_state[i].pesquisa = "ok"
            /\ pc = "kickoff2" =>
                  /\ kickoffs[idx] = 2
                  /\ processar_resultado_leitura(results) # None
                  /\ RevisaoRecord(results) # None
                  /\ HasRecord(idx)
                  /\ processar_resultado_pesquisa(results) # None )
    /\ [][StepsLeft' < StepsLeft]_vars
    /\ [](StepsLeft >= 0 /\ (pc = "done" \/ ENABLED Next))

\* a batch of two documents returned after four crew runs
C26_Witness ==
    /\ pc = "done"
    /\ Len(pdf_files) = 2
    /\ kickoffs = <<2, 2>>

\* no line of s is empty or made of whitespace only
NoBlankLine(s) ==
    s # <<>> =>
        /\ s[1] \notin Whitespace
        /\ s[Len(s)] \notin Whitespace
        /\ \A i, j \in 1..Len(s) :
              (i < j /\ s[i] = NL /\ s[j] = NL)
                  => \E k \in (i + 1)..(j - 1) : s[k] \notin Whitespace

====
